---- MODULE Spec2Model ----
(***************************************************************************)
(* Model of tourist_website.py: the cached CSV loader load_data() and the  *)
(* Streamlit script main(), which is re-executed on every interaction.     *)
(*                                                                         *)
(* Text is modelled as sequences of one-character strings so that          *)
(* str.strip, str.lower, str.replace, str.startswith, str.contains,        *)
(* pd.to_numeric and sorted() are computed the way Python computes them.   *)
(*                                                                         *)
(* Scope of the inputs: the files are built from the sample headers of     *)
(* Vocabulary (whose normalized names are pairwise distinct) and the       *)
(* sample rows of Profiles; numeric texts are signed decimal integers; the *)
(* only regular-expression metacharacter a search text holds is '.'.       *)
(***************************************************************************)
EXTENDS Integers, Sequences, FiniteSets, TLC

VARIABLES source, cache, reads, search_query, selected_state, out

vars == <<source, cache, reads, search_query, selected_state, out>>

----------------------------------------------------------------------------
(* Bounds of the model.                                                    *)

\* largest number of columns of a generated destinations.csv
MaxCols == 4

----------------------------------------------------------------------------
(* Python str primitives.                                                  *)

\* code-point order of the characters the model uses (ord())
Ascii ==
    <<" ", ",", "-", ".", "/", "0", "1", "2", "3", "4", "5", "6", "7", "8", "9", ":",
      "A", "B", "C", "D", "E", "F", "G", "H", "I", "J", "K", "L", "M",
      "N", "O", "P", "Q", "R", "S", "T", "U", "V", "W", "X", "Y", "Z", "_",
      "a", "b", "c", "d", "e", "f", "g", "h", "i", "j", "k", "l", "m",
      "n", "o", "p", "q", "r", "s", "t", "u", "v", "w", "x", "y", "z">>

\* ord(), tabulated once
OrdTable == [c \in {Ascii[i] : i \in 1..Len(Ascii)} |->
                CHOOSE i \in 1..Len(Ascii) : Ascii[i] = c]

Ord(c) == OrdTable[c]

\* str.lower() on one character, tabulated once: 'A'..'Z' map to 'a'..'z'
LowerTable ==
    [c \in DOMAIN OrdTable |->
        IF OrdTable[c] >= OrdTable["A"] /\ OrdTable[c] <= OrdTable["Z"]
        THEN Ascii[OrdTable[c] - OrdTable["A"] + OrdTable["a"]]
        ELSE c]

LowerChar(c) == LowerTable[c]

\* str.lower()
Lower(s) == [i \in 1..Len(s) |-> LowerChar(s[i])]

RECURSIVE LStrip(_)
LStrip(s) == IF s # <<>> /\ Head(s) = " " THEN LStrip(Tail(s)) ELSE s

RECURSIVE RStrip(_)
RStrip(s) ==
    IF s # <<>> /\ s[Len(s)] = " " THEN RStrip(SubSeq(s, 1, Len(s) - 1)) ELSE s

\* str.strip()
Strip(s) == RStrip(LStrip(s))

\* str.replace(' ', '_')
ReplaceSpaces(s) == [i \in 1..Len(s) |-> IF s[i] = " " THEN "_" ELSE s[i]]

\* str.startswith(prefix)
StartsWith(s, prefix) ==
    Len(s) >= Len(prefix) /\ SubSeq(s, 1, Len(prefix)) = prefix

\* the built-in < on str: lexicographic by code point
RECURSIVE StrLess(_, _)
StrLess(a, b) ==
    IF b = <<>> THEN FALSE
    ELSE IF a = <<>> THEN TRUE
    ELSE IF Head(a) # Head(b) THEN Ord(Head(a)) < Ord(Head(b))
    ELSE StrLess(Tail(a), Tail(b))

----------------------------------------------------------------------------
(* pandas values and pd.read_csv.                                          *)

\* a cell of a DataFrame: NaN, a str, or a number
NaN == [t |-> "nan", s |-> <<>>, n |-> 0]
Str(s) == [t |-> "str", s |-> s, n |-> 0]
Num(n) == [t |-> "num", s |-> <<>>, n |-> n]

\* pd.isnull / pd.notnull
IsNull(c) == c.t = "nan"
NotNull(c) == c.t # "nan"

Digits == <<"0", "1", "2", "3", "4", "5", "6", "7", "8", "9">>
IsDigit(c) == \E i \in 1..Len(Digits) : Digits[i] = c
DigitVal(c) == (CHOOSE i \in 1..Len(Digits) : Digits[i] = c) - 1

RECURSIVE NatVal(_)
NatVal(s) ==
    IF s = <<>> THEN 0
    ELSE NatVal(SubSeq(s, 1, Len(s) - 1)) * 10 + DigitVal(s[Len(s)])

AllDigits(s) == s # <<>> /\ \A i \in 1..Len(s) : IsDigit(s[i])

\* whether the numeric parser accepts the text (signed decimal integers;
\* the sample cells hold no fractions or exponents)
IsNumeric(s) ==
    IF s # <<>> /\ Head(s) = "-" THEN AllDigits(Tail(s)) ELSE AllDigits(s)

NumVal(s) == IF Head(s) = "-" THEN 0 - NatVal(Tail(s)) ELSE NatVal(s)

\* texts pd.read_csv reads as NaN (a part of its default na_values)
NaValues == {<<>>, <<"N", "A">>, <<"N", "a", "N">>, <<"n", "/", "a">>, <<"n", "u", "l", "l">>}

\* pd.read_csv('destinations.csv'): the first line names the columns, and
\* each column gets one dtype: a number dtype when every cell is blank or
\* numeric, object (str cells) otherwise; a file with no data rows gives
\* object columns.  A missing, empty or malformed file raises.
ReadCsv(src) ==
    IF src.kind = "missing" THEN [raised |-> "FileNotFoundError"]
    ELSE IF src.kind = "empty" THEN [raised |-> "EmptyDataError"]
    ELSE IF src.kind = "malformed" THEN [raised |-> "ParserError"]
    ELSE
      LET ncol == Len(src.header)
          nrow == Len(src.rows)
          numeric(j) ==
              /\ nrow > 0
              /\ \A i \in 1..nrow :
                    src.rows[i][j] \in NaValues \/ IsNumeric(src.rows[i][j])
          cell(i, j) ==
              LET raw == src.rows[i][j]
              IN  IF raw \in NaValues THEN NaN
                  ELSE IF numeric(j) THEN Num(NumVal(raw))
                  ELSE Str(raw)
      IN  [raised |-> "none",
           df |-> [columns |-> src.header,
                   dtypes |-> [j \in 1..ncol |->
                                  IF numeric(j) THEN "number" ELSE "object"],
                   index |-> [i \in 1..nrow |-> i - 1],
                   data |-> [i \in 1..nrow |-> [j \in 1..ncol |-> cell(i, j)]]]]

----------------------------------------------------------------------------
(* DataFrame primitives used by the program.                               *)

Range(s) == {s[i] : i \in 1..Len(s)}

\* `name in df.columns`
HasColumn(df, name) == name \in Range(df.columns)

ColIndex(df, name) == CHOOSE j \in 1..Len(df.columns) : df.columns[j] = name

\* df[name] as the sequence of its cells, in row order
Column(df, name) == [i \in 1..Len(df.data) |-> df.data[i][ColIndex(df, name)]]

\* row.get(name): None (treated as null) when the column does not exist
RowGet(df, i, name) ==
    IF HasColumn(df, name) THEN df.data[i][ColIndex(df, name)] ELSE NaN

\* df.rename(columns=mapping), mapping a function on some column names
Rename(df, mapping) ==
    [df EXCEPT !.columns =
        [j \in 1..Len(df.columns) |->
            IF df.columns[j] \in DOMAIN mapping
            THEN mapping[df.columns[j]] ELSE df.columns[j]]]

\* the elements of a set of positions as an increasing sequence
Increasing(S) ==
    [k \in 1..Cardinality(S) |->
        CHOOSE x \in S : Cardinality({y \in S : y <= x}) = k]

\* df.loc[:, keep]: the columns at the positions in keep
SelectColumns(df, keep) ==
    LET js == Increasing(keep)
    IN  [df EXCEPT !.columns = [k \in 1..Len(js) |-> df.columns[js[k]]],
                   !.dtypes = [k \in 1..Len(js) |-> df.dtypes[js[k]]],
                   !.data = [i \in 1..Len(df.data) |->
                                [k \in 1..Len(js) |-> df.data[i][js[k]]]]]

\* df[rowmask]: the rows at the positions in keep, index labels kept
SelectRows(df, keep) ==
    LET is == Increasing(keep)
    IN  [df EXCEPT !.index = [k \in 1..Len(is) |-> df.index[is[k]]],
                   !.data = [k \in 1..Len(is) |-> df.data[is[k]]]]

\* df[name] = values: replaces the column, or appends it as the last one
SetColumn(df, name, dtype, values) ==
    IF HasColumn(df, name)
    THEN LET j == ColIndex(df, name)
         IN  [df EXCEPT !.dtypes[j] = dtype,
                        !.data = [i \in 1..Len(df.data) |->
                                     [df.data[i] EXCEPT ![j] = values[i]]]]
    ELSE [df EXCEPT !.columns = Append(df.columns, name),
                    !.dtypes = Append(df.dtypes, dtype),
                    !.data = [i \in 1..Len(df.data) |->
                                 Append(df.data[i], values[i])]]

----------------------------------------------------------------------------
(* load_data().                                                            *)

name == <<"n", "a", "m", "e">>
state == <<"s", "t", "a", "t", "e">>
description == <<"d", "e", "s", "c", "r", "i", "p", "t", "i", "o", "n">>
popular_attractions == <<"p", "o", "p", "u", "l", "a", "r", "_", "a", "t", "t", "r", "a", "c", "t", "i", "o", "n", "s">>
image_url == <<"i", "m", "a", "g", "e", "_", "u", "r", "l">>
latitude == <<"l", "a", "t", "i", "t", "u", "d", "e">>
longitude == <<"l", "o", "n", "g", "i", "t", "u", "d", "e">>
significance == <<"s", "i", "g", "n", "i", "f", "i", "c", "a", "n", "c", "e">>
type == <<"t", "y", "p", "e">>

\* the dict of synonyms, in insertion order
synonyms ==
    << [canonical |-> name,
        options |-> << <<"n", "a", "m", "e">>, <<"d", "e", "s", "t", "i", "n", "a", "t", "i", "o", "n">>, <<"p", "l", "a", "c", "e">>, <<"t", "i", "t", "l", "e">>,
                       <<"l", "o", "c", "a", "t", "i", "o", "n">> >>],
       [canonical |-> state,
        options |-> << <<"s", "t", "a", "t", "e">>, <<"r", "e", "g", "i", "o", "n">>, <<"p", "r", "o", "v", "i", "n", "c", "e">> >>],
       [canonical |-> description,
        options |-> << <<"d", "e", "s", "c", "r", "i", "p", "t", "i", "o", "n">>, <<"d", "e", "s", "c">>, <<"d", "e", "t", "a", "i", "l", "s">>, <<"a", "b", "o", "u", "t">>,
                       <<"s", "i", "g", "n", "i", "f", "i", "c", "a", "n", "c", "e">> >>],
       [canonical |-> popular_attractions,
        options |-> << <<"p", "o", "p", "u", "l", "a", "r", "_", "a", "t", "t", "r", "a", "c", "t", "i", "o", "n", "s">>, <<"a", "t", "t", "r", "a", "c", "t", "i", "o", "n", "s">>,
                       <<"p", "o", "p", "u", "l", "a", "r", "_", "a", "t", "t", "r", "a", "c", "t", "i", "o", "n">>, <<"a", "t", "t", "r", "a", "c", "t", "i", "o", "n">>, <<"t", "y", "p", "e">> >>],
       [canonical |-> image_url,
        options |-> << <<"i", "m", "a", "g", "e", "_", "u", "r", "l">>, <<"i", "m", "a", "g", "e">>, <<"i", "m", "a", "g", "e", "_", "l", "i", "n", "k">>, <<"i", "m", "a", "g", "e", "u", "r", "l">>,
                       <<"p", "h", "o", "t", "o">>, <<"p", "h", "o", "t", "o", "_", "u", "r", "l">> >>],
       [canonical |-> latitude,
        options |-> << <<"l", "a", "t", "i", "t", "u", "d", "e">>, <<"l", "a", "t">> >>],
       [canonical |-> longitude,
        options |-> << <<"l", "o", "n", "g", "i", "t", "u", "d", "e">>, <<"l", "o", "n">>, <<"l", "o", "n", "g">>, <<"l", "n", "g">> >>] >>

required_columns == <<name, state>>

\* str(c).strip().lower().replace(' ', '_')
NormalizeHeader(c) == ReplaceSpaces(Lower(Strip(c)))

\* the rename of every original column to its normalized name
NormalizeColumns(df) ==
    Rename(df, [c \in Range(df.columns) |-> NormalizeHeader(c)])

\* df.loc[:, ~df.columns.str.startswith('unnamed')]
DropUnnamed(df) ==
    SelectColumns(df, {j \in 1..Len(df.columns) :
                          ~StartsWith(df.columns[j], <<"u", "n", "n", "a", "m", "e", "d">>)})

\* the inner loop without its `break`: the last option that is a column
RECURSIVE FirstPresent_NoBreak(_, _)
FirstPresent_NoBreak(df, options) ==
    IF options = <<>> THEN <<>>
    ELSE IF HasColumn(df, options[Len(options)]) THEN options[Len(options)]
    ELSE FirstPresent_NoBreak(df, SubSeq(options, 1, Len(options) - 1))

\* the inner loop: the first option that is a column, <<>> when none is
RECURSIVE FirstPresent(_, _)
FirstPresent(df, options) ==
    IF options = <<>> THEN <<>>
    ELSE IF HasColumn(df, Head(options)) THEN Head(options)
    ELSE FirstPresent(df, Tail(options))

\* found: canonical name -> the column adopted for it
Found(df) ==
    LET hit == {k \in 1..Len(synonyms) :
                   FirstPresent(df, synonyms[k].options) # <<>>}
    IN  [c \in {synonyms[k].canonical : k \in hit} |->
            LET k == CHOOSE k \in hit : synonyms[k].canonical = c
            IN  FirstPresent(df, synonyms[k].options)]

\* rename_map = {found[k]: k for k in found}; a later key wins a clash
RenameMap(found) ==
    [o \in {found[c] : c \in DOMAIN found} |->
        LET ks == {k \in 1..Len(synonyms) :
                      /\ synonyms[k].canonical \in DOMAIN found
                      /\ found[synonyms[k].canonical] = o}
        IN  synonyms[CHOOSE k \in ks : \A m \in ks : m <= k].canonical]

\* the required check with 'state' left out of required_columns
MissingRequired_OnlyName(df) ==
    IF HasColumn(df, name) THEN <<>> ELSE <<name>>

\* [c for c in required_columns if c not in df.columns]
MissingRequired(df) ==
    LET ks == Increasing({k \in 1..Len(required_columns) :
                             ~HasColumn(df, required_columns[k])})
    IN  [i \in 1..Len(ks) |-> required_columns[ks[i]]]

\* a column holding the str '' in every row
EmptyStrings(df) == [i \in 1..Len(df.data) |-> Str(<<>>)]

CopyColumn(df, to, from) ==
    SetColumn(df, to, df.dtypes[ColIndex(df, from)], Column(df, from))

\* the three defaulting steps for description, popular_attractions, image_url
FillDescription(df) ==
    IF HasColumn(df, description) THEN df
    ELSE IF HasColumn(df, significance) THEN CopyColumn(df, description, significance)
    ELSE IF HasColumn(df, type) THEN CopyColumn(df, description, type)
    ELSE SetColumn(df, description, "object", EmptyStrings(df))

FillAttractions(df) ==
    IF HasColumn(df, popular_attractions) THEN df
    ELSE IF HasColumn(df, type) THEN CopyColumn(df, popular_attractions, type)
    ELSE SetColumn(df, popular_attractions, "object", EmptyStrings(df))

FillImage(df) ==
    IF HasColumn(df, image_url) THEN df
    ELSE SetColumn(df, image_url, "object", EmptyStrings(df))

\* dropna(subset=['name']): a blank state no longer drops the row
DropNa_NameOnly(df) ==
    SelectRows(df, {i \in 1..Len(df.data) : NotNull(RowGet(df, i, name))})

\* df.dropna(subset=['name', 'state'])
DropNa(df) ==
    SelectRows(df, {i \in 1..Len(df.data) :
                       /\ NotNull(RowGet(df, i, name))
                       /\ NotNull(RowGet(df, i, state))})

\* pd.to_numeric(value, errors='ignore'): text that is no number is kept
ToNumeric_Ignore(c) ==
    IF c.t = "str" /\ IsNumeric(c.s) THEN Num(NumVal(c.s)) ELSE c

\* pd.to_numeric(value, errors='coerce') on one cell
ToNumeric(c) ==
    IF c.t = "str"
    THEN IF IsNumeric(c.s) THEN Num(NumVal(c.s)) ELSE NaN
    ELSE c

\* df[coord] = pd.to_numeric(df[coord], errors='coerce'), when coord exists
CoerceCoordinate(df, coord) ==
    IF HasColumn(df, coord)
    THEN SetColumn(df, coord, "number",
                   [i \in 1..Len(df.data) |-> ToNumeric(RowGet(df, i, coord))])
    ELSE df

NoFrame == [columns |-> <<>>, dtypes |-> <<>>, index |-> <<>>, data |-> <<>>]

\* return None after st.error(message)
Failure(message, missing, available, found) ==
    [is_none |-> TRUE, df |-> NoFrame, error |-> message,
     missing_required |-> missing, available |-> available, found |-> found]

\* the body of load_data: what it returns and the st.error it shows
load_data(src) ==
    LET read == ReadCsv(src)
    IN  IF read.raised = "FileNotFoundError"
        THEN Failure("destinations.csv not found", <<>>, <<>>, <<>>)
        ELSE IF read.raised = "EmptyDataError"
        THEN Failure("destinations.csv is empty or invalid", <<>>, <<>>, <<>>)
        ELSE IF read.raised # "none"
        THEN Failure("Error loading data", <<>>, <<>>, <<>>)
        ELSE
          LET df1 == DropUnnamed(NormalizeColumns(read.df))
              found == Found(df1)
              df2 == Rename(df1, RenameMap(found))
              missing_required == MissingRequired(df2)
          IN  IF missing_required # <<>>
              THEN Failure("Required column(s) not found", missing_required,
                           df2.columns, found)
              ELSE IF \E k \in 1..Len(required_columns) :
                         ~HasColumn(df2, required_columns[k])
              THEN \* dropna raises KeyError, caught by `except Exception`
                   Failure("Error loading data", <<>>, <<>>, found)
              ELSE
                LET df3 == FillImage(FillAttractions(FillDescription(df2)))
                    df4 == DropNa(df3)
                    df5 == CoerceCoordinate(CoerceCoordinate(df4, latitude),
                                            longitude)
                IN  [is_none |-> FALSE, df |-> df5, error |-> "none",
                     missing_required |-> <<>>, available |-> <<>>,
                     found |-> found]

----------------------------------------------------------------------------
(* main(): one execution of the script.                                    *)

All == Str(<<"A", "l", "l">>)

\* the < that sorted() uses on the values of one column
CellLess(a, b) ==
    IF a.t = "num" /\ b.t = "num" THEN a.n < b.n ELSE StrLess(a.s, b.s)

\* sorted(values) for a set of distinct values
Sorted(S) ==
    [k \in 1..Cardinality(S) |->
        CHOOSE x \in S :
            Cardinality({y \in S : y = x \/ CellLess(y, x)}) = k]

\* ['All'] + sorted(df['state'].unique().tolist())
States(df) == <<All>> \o Sorted(Range(Column(df, state)))

\* re.search(pattern, text, re.IGNORECASE) for patterns made of literal
\* characters and the wildcard '.'
RegexSearch(pattern, text) ==
    \E start \in 0..(Len(text) - Len(pattern)) :
        \A k \in 1..Len(pattern) :
            \/ pattern[k] = "."
            \/ LowerChar(pattern[k]) = LowerChar(text[start + k])

\* Series.str.contains(search_query, case=False, na=False) on one cell
StrContains(c, query) == c.t = "str" /\ RegexSearch(query, c.s)

\* the .str accessor raises AttributeError on a column of a number dtype
StrAccessorRaises(df, col) == df.dtypes[ColIndex(df, col)] # "object"

\* the index labels selected by the search mask, computed on df
SearchMask(df, query) ==
    {df.index[i] : i \in {i \in 1..Len(df.data) :
        \/ StrContains(RowGet(df, i, name), query)
        \/ StrContains(RowGet(df, i, description), query)
        \/ StrContains(RowGet(df, i, popular_attractions), query)}}

\* filtered_df[mask]
ApplySearch(df, filtered_df, query) ==
    SelectRows(filtered_df,
               {i \in 1..Len(filtered_df.data) :
                   filtered_df.index[i] \in SearchMask(df, query)})

\* filtered_df[filtered_df['state'] == selected_state]
ApplyState(filtered_df, selected) ==
    SelectRows(filtered_df,
               {i \in 1..Len(filtered_df.data) :
                   RowGet(filtered_df, i, state) = selected})

\* the state filter applied to df instead of filtered_df
Filter_StateOnDf(df, query, selected) ==
    LET searched == IF query # <<>> THEN ApplySearch(df, df, query) ELSE df
    IN  IF selected # All THEN ApplyState(df, selected) ELSE searched

\* the filtering block of main: search first, then state
Filter(df, query, selected) ==
    LET searched == IF query # <<>> THEN ApplySearch(df, df, query) ELSE df
    IN  IF selected # All THEN ApplyState(searched, selected) ELSE searched

\* a value is truthy unless it is '' or 0
Truthy(c) == ~(c.t = "str" /\ c.s = <<>>) /\ ~(c.t = "num" /\ c.n = 0)

\* str.split(',')
RECURSIVE SplitCommas(_, _)
SplitCommas(s, piece) ==
    IF s = <<>> THEN <<piece>>
    ELSE IF Head(s) = "," THEN <<piece>> \o SplitCommas(Tail(s), <<>>)
    ELSE SplitCommas(Tail(s), Append(piece, Head(s)))

\* [a.strip() for a in text.split(',') if a.strip()]
Attractions(text) ==
    LET pieces == SplitCommas(text, <<>>)
        kept == Increasing({i \in 1..Len(pieces) : Strip(pieces[i]) # <<>>})
    IN  [k \in 1..Len(kept) |-> Strip(pieces[kept[k]])]

RECURSIVE NatStr(_)
NatStr(n) ==
    IF n < 10 THEN <<Digits[n + 1]>>
    ELSE Append(NatStr(n \div 10), Digits[(n % 10) + 1])

\* str(value) of a cell that is not null
CellText(c) ==
    IF c.t = "str" THEN c.s
    ELSE IF c.n < 0 THEN <<"-">> \o NatStr(0 - c.n) ELSE NatStr(c.n)

\* the marker test with the longitude check left out
BothCoordinates_LatitudeOnly(df, i) == NotNull(RowGet(df, i, latitude))

\* pd.notnull(row.get('latitude')) and pd.notnull(row.get('longitude'))
BothCoordinates(df, i) ==
    NotNull(RowGet(df, i, latitude)) /\ NotNull(RowGet(df, i, longitude))

\* the folium.Marker objects added to the map, in row order
Markers(filtered_df) ==
    LET is == Increasing({i \in 1..Len(filtered_df.data) :
                             BothCoordinates(filtered_df, i)})
    IN  [k \in 1..Len(is) |->
            [location |-> <<RowGet(filtered_df, is[k], latitude),
                            RowGet(filtered_df, is[k], longitude)>>,
             popup |-> RowGet(filtered_df, is[k], name),
             tooltip |-> RowGet(filtered_df, is[k], name)]]

\* one st.expander per row of filtered_df
Card(filtered_df, i) ==
    LET img == RowGet(filtered_df, i, image_url)
        attr == RowGet(filtered_df, i, popular_attractions)
    IN  [idx |-> filtered_df.index[i],
         name |-> RowGet(filtered_df, i, name),
         state |-> RowGet(filtered_df, i, state),
         image |-> IF NotNull(img) /\ Truthy(img) THEN img ELSE NaN,
         description |-> RowGet(filtered_df, i, description),
         attractions |-> IF NotNull(attr) /\ Truthy(attr)
                         THEN Attractions(CellText(attr)) ELSE <<>>,
         button |-> BothCoordinates(filtered_df, i)]

Cards(filtered_df) ==
    [i \in 1..Len(filtered_df.data) |-> Card(filtered_df, i)]

\* what a pass has put on the page
Blank ==
    [ran |-> FALSE, cache_hit |-> FALSE, error |-> "none", warning |-> "none",
     widgets |-> FALSE, states |-> <<>>, exception |-> "none",
     rendered |-> FALSE, filtered |-> <<>>, count |-> 0,
     map_view |-> FALSE, map |-> FALSE, markers |-> <<>>,
     no_results |-> FALSE, cards |-> <<>>]

\* main() after the `df is None` check: sidebar, filters, map and cards
Render(df, base, query, selected) ==
    LET sidebar == [base EXCEPT !.widgets = TRUE, !.states = States(df)]
    IN  IF query # <<>> /\ \E c \in {name, description, popular_attractions} :
                               StrAccessorRaises(df, c)
        THEN [sidebar EXCEPT !.exception = "AttributeError"]
        ELSE
          LET filtered_df == Filter(df, query, selected)
              has_map == HasColumn(df, latitude) /\ HasColumn(df, longitude)
              empty == filtered_df.data = <<>>
          IN  [sidebar EXCEPT
                  !.rendered = TRUE,
                  !.filtered = filtered_df.index,
                  !.count = Len(filtered_df.data),
                  !.map_view = has_map,
                  !.map = has_map /\ ~empty,
                  !.markers = IF has_map /\ ~empty
                              THEN Markers(filtered_df) ELSE <<>>,
                  !.no_results = empty,
                  !.cards = IF empty THEN <<>> ELSE Cards(filtered_df)]

\* the page header, before load_data() is called
PageTop(loaded, hit) ==
    [Blank EXCEPT !.ran = TRUE, !.cache_hit = hit, !.error = loaded.error]

\* main without the `return` after the warning: df['state'] on None raises
main_NoReturn(loaded, hit, query, selected) ==
    IF loaded.is_none
    THEN [PageTop(loaded, hit) EXCEPT !.warning = "No data found",
                                      !.exception = "TypeError"]
    ELSE Render(loaded.df, PageTop(loaded, hit), query, selected)

\* main() given what load_data() returned and the values of the two widgets
main(loaded, hit, query, selected) ==
    IF loaded.is_none
    THEN [PageTop(loaded, hit) EXCEPT !.warning = "No data found"]
    ELSE Render(loaded.df, PageTop(loaded, hit), query, selected)

----------------------------------------------------------------------------
(* The files destinations.csv the model is run on.                         *)

\* column names as pd.read_csv returns them:
\*   "Unnamed: 0", " Name", "Place", "STATE", "about",
\*   "Popular Attractions", "type", "Latitude", "lat", "lon"
Vocabulary ==
    << <<"U", "n", "n", "a", "m", "e", "d", ":", " ", "0">>, <<" ", "N", "a", "m", "e">>, <<"P", "l", "a", "c", "e">>, <<"S", "T", "A", "T", "E">>, <<"a", "b", "o", "u", "t">>,
       <<"P", "o", "p", "u", "l", "a", "r", " ", "A", "t", "t", "r", "a", "c", "t", "i", "o", "n", "s">>, <<"t", "y", "p", "e">>, <<"L", "a", "t", "i", "t", "u", "d", "e">>, <<"l", "a", "t">>, <<"l", "o", "n">> >>

\* sample data rows, one text per column of Vocabulary:
\*   0, Goa,   Panaji,  Goa,   Beach,     "Fort, , Beach,", City,  15, 16,  74
\*   1, Agra,  Agra,    All,   (blank),   (blank),          Tomb,  x,  27,  78
\*   2, (bl.), Ooty,    Delhi, Agra fort, Lake,             (bl.), 11, (b), NA
\*   3, Puri,  Puri,    (bl.), Sea,       (blank),          Beach, (b), -19, 85
\*   4, Hampi, Gokarna, Goa,   (blank),   (blank),          (bl.), (b), (b), (b)
Profiles ==
    << << <<"0">>, <<"G", "o", "a">>, <<"P", "a", "n", "a", "j", "i">>, <<"G", "o", "a">>, <<"B", "e", "a", "c", "h">>,
          <<"F", "o", "r", "t", ",", " ", ",", " ", "B", "e", "a", "c", "h", ",">>, <<"C", "i", "t", "y">>, <<"1", "5">>, <<"1", "6">>, <<"7", "4">> >>,
       << <<"1">>, <<"A", "g", "r", "a">>, <<"A", "g", "r", "a">>, <<"A", "l", "l">>, <<>>,
          <<>>, <<"T", "o", "m", "b">>, <<"x">>, <<"2", "7">>, <<"7", "8">> >>,
       << <<"2">>, <<>>, <<"O", "o", "t", "y">>, <<"D", "e", "l", "h", "i">>, <<"A", "g", "r", "a", " ", "f", "o", "r", "t">>,
          <<"L", "a", "k", "e">>, <<>>, <<"1", "1">>, <<>>, <<"N", "A">> >>,
       << <<"3">>, <<"P", "u", "r", "i">>, <<"P", "u", "r", "i">>, <<>>, <<"S", "e", "a">>,
          <<>>, <<"B", "e", "a", "c", "h">>, <<>>, <<"-", "1", "9">>, <<"8", "5">> >>,
       << <<"4">>, <<"H", "a", "m", "p", "i">>, <<"G", "o", "k", "a", "r", "n", "a">>, <<"G", "o", "a">>, <<>>,
          <<>>, <<>>, <<>>, <<>>, <<>> >> >>

\* the columns of a file: at most MaxCols of the Vocabulary, in its order
HeaderChoices ==
    {S \in SUBSET (1..Len(Vocabulary)) :
        Cardinality(S) >= 1 /\ Cardinality(S) <= MaxCols}

\* the data rows of a file: any selection of the Profiles, in their order
RowChoices == SUBSET (1..Len(Profiles))

Csv(S, R) ==
    LET js == Increasing(S)
        is == Increasing(R)
    IN  [kind |-> "csv",
         header |-> [k \in 1..Len(js) |-> Vocabulary[js[k]]],
         rows |-> [i \in 1..Len(is) |->
                      [k \in 1..Len(js) |-> Profiles[is[i]][js[k]]]]]

Unreadable(kind) == [kind |-> kind, header |-> <<>>, rows |-> <<>>]

Sources ==
    {Csv(S, R) : S \in HeaderChoices, R \in RowChoices}
        \cup {Unreadable(k) : k \in {"missing", "empty", "malformed"}}

\* texts typed into the search box: "", "FORT", "g.a"
Queries == {<<>>, <<"F", "O", "R", "T">>, <<"g", ".", "a">>}

----------------------------------------------------------------------------
(* The session.                                                            *)

\* load_data without @st.cache_data: the body runs on every call
CachedLoad_NoCache(c, src) == [value |-> load_data(src), hit |-> FALSE]

\* @st.cache_data: the body runs on the first call only
CachedLoad(c, src) ==
    IF c.stored THEN [value |-> c.value, hit |-> TRUE]
    ELSE [value |-> load_data(src), hit |-> FALSE]

Init ==
    /\ source \in Sources
    /\ cache = [stored |-> FALSE, value |-> Failure("none", <<>>, <<>>, <<>>)]
    /\ reads = 0
    /\ search_query = <<>>
    /\ selected_state = All
    /\ out = Blank

\* one execution of the script with the widgets holding query and selected
Pass(query, selected) ==
    LET call == CachedLoad(cache, source)
    IN  /\ cache' = [stored |-> TRUE, value |-> call.value]
        /\ reads' = IF call.hit THEN reads ELSE reads + 1
        /\ search_query' = query
        /\ selected_state' = selected
        /\ out' = main(call.value, call.hit, query, selected)
        /\ UNCHANGED source

\* the session opens: the script runs with the widgets at their defaults
FirstRun ==
    /\ ~out.ran
    /\ Pass(<<>>, All)

\* the user reruns the page without touching a widget
Rerun ==
    /\ out.ran
    /\ Pass(search_query, selected_state)

\* the user edits the search box
TypeSearch ==
    /\ out.widgets
    /\ \E q \in Queries : q # search_query /\ Pass(q, selected_state)

\* the user picks another entry of the state dropdown
SelectState ==
    /\ out.widgets
    /\ \E k \in 1..Len(out.states) :
          out.states[k] # selected_state /\ Pass(search_query, out.states[k])

Next == FirstRun \/ Rerun \/ TypeSearch \/ SelectState

Spec == Init /\ [][Next]_vars

----------------------------------------------------------------------------
(* What the properties below read from a state.                            *)

\* the normalized header names of the file
NormalizedHeaders ==
    {NormalizeHeader(source.header[j]) : j \in 1..Len(source.header)}

OptionsOf(c) ==
    synonyms[CHOOSE k \in 1..Len(synonyms) : synonyms[k].canonical = c].options

\* some synonym of canonical field c is a header of the file
Resolvable(c) == \E o \in Range(OptionsOf(c)) : o \in NormalizedHeaders

\* load_data has run on a readable file
Loaded == cache.stored /\ source.kind = "csv"

\* load_data has returned a table
Returned == cache.stored /\ ~cache.value.is_none

Table == cache.value.df

\* the text the file holds in data row r (1-based), in the column whose
\* normalized header is col
RawText(r, col) ==
    source.rows[r][CHOOSE j \in 1..Len(source.header) :
                      NormalizeHeader(source.header[j]) = col]

\* the text of data row r in the column adopted for canonical field c
RawField(r, c) == RawText(r, cache.value.found[c])

NonEmpty(c) == NotNull(c) /\ c # Str(<<>>)

\* the table row carrying index label l
RowOf(l) == CHOOSE i \in 1..Len(Table.data) : Table.index[i] = l

----------------------------------------------------------------------------
\* C1: a file whose normalized headers hold no synonym of name, or no
\* synonym of state, makes load_data report the missing required columns
\* and return no table, whatever optional columns it has.
C1_RequiredFieldGate ==
    (Loaded /\ (~Resolvable(name) \/ ~Resolvable(state))) =>
        /\ cache.value.is_none
        /\ cache.value.df = NoFrame
        /\ cache.value.error = "Required column(s) not found"
        /\ Range(cache.value.missing_required) =
               {c \in {name, state} : ~Resolvable(c)}
        /\ out.ran => out.error = "Required column(s) not found"

\* a file with a name column and optional columns but no state column was loaded
C1_Witness ==
    /\ Loaded
    /\ Resolvable(name) /\ ~Resolvable(state)
    /\ Resolvable(description) /\ Resolvable(latitude) /\ Resolvable(longitude)
    /\ cache.value.error = "Required column(s) not found"

\* C2: every row of a returned table has a non-empty name and a non-empty
\* state, and every data row of the file whose name or state is blank is
\* absent from the table.
C2_RowDropInvariant ==
    Returned =>
        /\ \A i \in 1..Len(Table.data) :
              /\ NonEmpty(RowGet(Table, i, name))
              /\ NonEmpty(RowGet(Table, i, state))
        /\ \A r \in 1..Len(source.rows) :
              (RawField(r, name) = <<>> \/ RawField(r, state) = <<>>) =>
                  (r - 1) \notin Range(Table.index)

\* a table was returned from a file with a row of blank name, a row of blank
\* state and a row that has both
C2_Witness ==
    /\ Returned
    /\ \E r \in 1..Len(source.rows) :
          RawField(r, name) = <<>> /\ RawField(r, state) # <<>>
    /\ \E r \in 1..Len(source.rows) :
          RawField(r, name) # <<>> /\ RawField(r, state) = <<>>
    /\ Len(Table.data) >= 1

\* C3 as stated: in every row of a returned table latitude and longitude
\* are both present or both absent.
C3_BothOrNeither ==
    Returned =>
        \A i \in 1..Len(Table.data) :
            NotNull(RowGet(Table, i, latitude))
                <=> NotNull(RowGet(Table, i, longitude))

\* C3 amended: each coordinate is coerced on its own.  In every row of a
\* returned table a coordinate whose column exists is the number its text
\* denotes, and is absent exactly when the text is blank or no number.
C3_CoordinatesCoercedIndependently ==
    Returned =>
        \A c \in {latitude, longitude} :
            HasColumn(Table, c) =>
                \A i \in 1..Len(Table.data) :
                    LET cell == RowGet(Table, i, c)
                        raw == RawField(Table.index[i] + 1, c)
                    IN  /\ cell.t \in {"num", "nan"}
                        /\ cell.t = "num" <=> IsNumeric(raw)
                        /\ cell.t = "num" => cell.n = NumVal(raw)

\* a returned row has a latitude that failed coercion beside a numeric
\* longitude
C3_Witness ==
    /\ Returned
    /\ HasColumn(Table, latitude) /\ HasColumn(Table, longitude)
    /\ \E i \in 1..Len(Table.data) :
          /\ RawField(Table.index[i] + 1, latitude) \notin NaValues
          /\ IsNull(RowGet(Table, i, latitude))
          /\ NotNull(RowGet(Table, i, longitude))

\* C4: for every canonical field the column adopted is the first synonym of
\* its priority list that is a header of the file, a field none of whose
\* synonyms is a header adopts nothing, and no column is adopted twice.
C4_FirstSynonymWins ==
    Loaded =>
        LET found == cache.value.found
        IN  /\ \A k \in 1..Len(synonyms) :
                  LET c == synonyms[k].canonical
                      opts == synonyms[k].options
                      present == {i \in 1..Len(opts) : opts[i] \in NormalizedHeaders}
                  IN  IF present = {} THEN c \notin DOMAIN found
                      ELSE /\ c \in DOMAIN found
                           /\ \E i \in present :
                                 /\ found[c] = opts[i]
                                 /\ \A m \in present : i <= m
            /\ \A c1, c2 \in DOMAIN found : found[c1] = found[c2] => c1 = c2

\* `latitude` and `lat` are both headers and `latitude` was adopted
C4_Witness ==
    /\ Loaded
    /\ {<<"l", "a", "t", "i", "t", "u", "d", "e">>, <<"l", "a", "t">>} \subseteq NormalizedHeaders
    /\ <<"l", "o", "n">> \in NormalizedHeaders
    /\ cache.value.found[latitude] = <<"l", "a", "t", "i", "t", "u", "d", "e">>
    /\ cache.value.found[longitude] = <<"l", "o", "n">>

\* C5: when the file has a `type` column, no synonym of description and no
\* other synonym of popular_attractions, both description and
\* popular_attractions of every returned row hold the row's `type` value.
C5_TypeFeedsBothFields ==
    (/\ Returned
     /\ type \in NormalizedHeaders
     /\ ~Resolvable(description)
     /\ cache.value.found[popular_attractions] = type) =>
        \A i \in 1..Len(Table.data) :
            LET raw == ReadCsv(source).df.data[Table.index[i] + 1]
                           [CHOOSE j \in 1..Len(source.header) :
                               NormalizeHeader(source.header[j]) = type]
            IN  /\ RowGet(Table, i, popular_attractions) = raw
                /\ RowGet(Table, i, description) = raw

\* the search filter and the state filter, each applied on its own to a
\* frame f of rows of the table
SearchOnly(f) ==
    IF search_query # <<>> THEN ApplySearch(Table, f, search_query) ELSE f

StateOnly(f) ==
    IF selected_state # All THEN ApplyState(f, selected_state) ELSE f

C7_MarkersAndCards ==
    out.rendered =>
        LET labels == out.filtered
            set(l, c) == HasColumn(Table, c) /\ RowGet(Table, RowOf(l), c).t = "num"
            located == Increasing({k \in 1..Len(labels) :
                           set(labels[k], latitude) /\ set(labels[k], longitude)})
        IN  /\ \A k, m \in 1..Len(labels) : k < m => labels[k] < labels[m]
            /\ Len(out.cards) = Len(labels)
            /\ \A k \in 1..Len(labels) :
                  /\ out.cards[k].idx = labels[k]
                  /\ out.cards[k].name = RowGet(Table, RowOf(labels[k]), name)
                  /\ out.cards[k].state = RowGet(Table, RowOf(labels[k]), state)
            /\ Len(out.markers) = Len(located)
            /\ \A k \in 1..Len(located) :
                  LET i == RowOf(labels[located[k]])
                  IN  out.markers[k] =
                          [location |-> <<RowGet(Table, i, latitude),
                                          RowGet(Table, i, longitude)>>,
                           popup |-> RowGet(Table, i, name),
                           tooltip |-> RowGet(Table, i, name)]

\* a pass that draws a marker for one row and cards for that row and for a
\* row with only one coordinate
C7_Witness ==
    /\ out.rendered
    /\ Len(out.markers) >= 1
    /\ Len(out.cards) > Len(out.markers)
    /\ \E k \in 1..Len(out.cards) :
          LET i == RowOf(out.cards[k].idx)
          IN  NotNull(RowGet(Table, i, longitude)) /\ IsNull(RowGet(Table, i, latitude))

\* C8: when load_data fails, every pass of the session shows the message
\* and the warning and nothing else: no widgets, no map, no markers, no
\* cards, no exception, and the file is not read again.
C8_FailedLoadIsTerminal ==
    /\ (cache.stored /\ source.kind # "csv") => cache.value.is_none
    /\ (cache.stored /\ cache.value.is_none) =>
          /\ cache.value.df = NoFrame
          /\ cache.value.error # "none"
          /\ reads = 1
          /\ out.ran =>
                /\ out.error = cache.value.error
                /\ out.warning = "No data found"
                /\ out.exception = "none"
                /\ ~out.widgets /\ out.states = <<>>
                /\ ~out.rendered /\ ~out.map_view /\ ~out.map
                /\ out.markers = <<>> /\ out.cards = <<>>

\* a later pass of a session whose file was not found
C8_Witness ==
    /\ source.kind = "missing"
    /\ out.ran /\ out.cache_hit
    /\ out.error = "destinations.csv not found"

\* C9: the file is read at most once in a session: by the first call of
\* load_data, and by no later call.
C9_ReadAtMostOnce ==
    /\ reads <= 1
    /\ out.ran => reads = 1
    /\ out.cache_hit => cache.stored

\* a pass after the first, served from the cache, on a table that loaded
C9_Witness ==
    /\ Returned
    /\ out.cache_hit /\ out.rendered
    /\ search_query # <<>>
    /\ reads = 1

\* C10: the options of the state dropdown are "All" followed by the
\* distinct state values of the table in ascending order, with no duplicate
\* entry and no empty entry.
C10_StateOptions ==
    out.widgets =>
        LET opts == out.states
            distinct == Range(Column(Table, state))
        IN  /\ opts[1] = All
            /\ Len(opts) = 1 + Cardinality(distinct)
            /\ Range(Tail(opts)) = distinct
            /\ \A k, m \in 2..Len(opts) : k < m => CellLess(opts[k], opts[m])
            /\ \A k, m \in 1..Len(opts) : opts[k] = opts[m] => k = m
            /\ \A k \in 1..Len(opts) : NonEmpty(opts[k])

====
